---- MODULE Spec2Model ----
(***************************************************************************)
(* Serial-to-I2C bridge for the MAX2870 (arduino.c).  The host writes text *)
(* commands to the serial port; loop() reads one, decodes the frequency    *)
(* with extractFrequency, writes a three byte frame to the bus with        *)
(* sendFrequencyToMAX2870 and prints a SUCCESS or ERROR line.              *)
(*                                                                         *)
(* Text is modelled by TLA+ strings, integers of type long keep 32 bits,   *)
(* bytes keep 8 bits.  The serial output and the bus are append-only logs. *)
(***************************************************************************)
EXTENDS Integers, Sequences, FiniteSets, TLC

(***************************************************************************)
(* Bounds of the model.                                                    *)
(***************************************************************************)
\* longest command text of a free-text session
MaxLen == 5
\* number of commands of a session of several commands
MaxCycles == 3

(***************************************************************************)
(* Program constants.                                                      *)
(***************************************************************************)
MAX2870_I2C_ADDRESS == 104
COMMAND_BYTE == 81

\* range of the AVR long (32 bit two's complement)
LongMax == 2147483647
LongMin == 0 - LongMax - 1

\* return codes of Wire.endTransmission: 0 success, 1 data too long,
\* 2 NACK on address, 3 NACK on data, 4 other error
BusCodes == 0..4

(***************************************************************************)
(* Text helpers: the Arduino String class and avr-libc.                    *)
(***************************************************************************)
Char(s, i) == SubSeq(s, i, i)

Digits == {"0", "1", "2", "3", "4", "5", "6", "7", "8", "9"}

DigitVal(c) ==
    CASE c = "0" -> 0 [] c = "1" -> 1 [] c = "2" -> 2 [] c = "3" -> 3
      [] c = "4" -> 4 [] c = "5" -> 5 [] c = "6" -> 6 [] c = "7" -> 7
      [] c = "8" -> 8 [] c = "9" -> 9

DigitChar(d) ==
    CASE d = 0 -> "0" [] d = 1 -> "1" [] d = 2 -> "2" [] d = 3 -> "3"
      [] d = 4 -> "4" [] d = 5 -> "5" [] d = 6 -> "6" [] d = 7 -> "7"
      [] d = 8 -> "8" [] d = 9 -> "9"

\* isspace() of the C locale, as used by atol
IsSpace(c) == c \in {" ", "\t", "\n", "\r", "\f"}

\* The 32 bit accumulator of atol is kept as two unsigned 16 bit halves, so
\* that a product that leaves the range of long wraps as it does on the AVR.
Half == 65536

\* acc * 10 + d in 32 bits
MulAdd(acc, d) ==
    LET low == acc.lo * 10 + d
    IN [hi |-> (acc.hi * 10 + low \div Half) % Half, lo |-> low % Half]

\* the halves read as a signed long
Signed(acc) ==
    IF acc.hi >= Half \div 2
    THEN (acc.hi - Half) * Half + acc.lo
    ELSE acc.hi * Half + acc.lo

\* -n in 32 bits
Negate(n) == IF n = LongMin THEN LongMin ELSE 0 - n

\* a search that keeps the last occurrence instead of the first
lastIndexOf(s, ch) ==
    IF \E i \in 1..Len(s) : Char(s, i) = ch
    THEN (CHOOSE i \in 1..Len(s) :
              Char(s, i) = ch /\ \A j \in (i + 1)..Len(s) : Char(s, j) # ch) - 1
    ELSE -1

\* String::indexOf(char): index of the first occurrence counted from 0, or -1
RECURSIVE IndexFrom(_, _, _)
IndexFrom(s, ch, i) ==
    IF i > Len(s) THEN -1
    ELSE IF Char(s, i) = ch THEN i - 1
    ELSE IndexFrom(s, ch, i + 1)

indexOf(s, ch) ==
    IndexFrom(s, ch, 1)

\* String::substring(beginIndex): the text from beginIndex (counted from 0)
\* to the end; empty when beginIndex is at or past the end
substring(s, left) ==
    IF left >= Len(s) THEN "" ELSE SubSeq(s, left + 1, Len(s))

\* atol: skip leading white space, take an optional sign, then accumulate
\* decimal digits until the first character that is not a digit
RECURSIVE SkipSpace(_, _)
SkipSpace(s, i) ==
    IF i <= Len(s) /\ IsSpace(Char(s, i)) THEN SkipSpace(s, i + 1) ELSE i

RECURSIVE AccDigits(_, _, _)
AccDigits(s, i, acc) ==
    IF i <= Len(s) /\ Char(s, i) \in Digits
    THEN AccDigits(s, i + 1, MulAdd(acc, DigitVal(Char(s, i))))
    ELSE Signed(acc)

\* a parse that accepts the sign and forgets to apply it
atolUnsigned(s) ==
    LET i == SkipSpace(s, 1)
        signed == i <= Len(s) /\ Char(s, i) \in {"-", "+"}
    IN AccDigits(s, IF signed THEN i + 1 ELSE i, [hi |-> 0, lo |-> 0])

atol(s) ==
    LET i == SkipSpace(s, 1)
        neg == i <= Len(s) /\ Char(s, i) = "-"
        pos == i <= Len(s) /\ Char(s, i) = "+"
        j == IF neg \/ pos THEN i + 1 ELSE i
        mag == AccDigits(s, j, [hi |-> 0, lo |-> 0])
    IN IF neg THEN Negate(mag) ELSE mag

\* String::toInt: atol of the buffer, 0 when the string has no buffer
toInt(s) == IF s = "" THEN 0 ELSE atol(s)

\* decimal text of a non-negative number, most significant digit first
RECURSIVE DecimalText(_)
DecimalText(n) ==
    IF n < 10 THEN DigitChar(n)
    ELSE DecimalText(n \div 10) \o DigitChar(n % 10)

\* String(long): ltoa in base 10
LongToString(n) ==
    IF n = LongMin THEN "-2147483648"
    ELSE IF n < 0 THEN "-" \o DecimalText(0 - n)
    ELSE DecimalText(n)

\* Serial.println(byte): the byte printed as an unsigned decimal number
ByteToString(b) == DecimalText(b % 256)

(***************************************************************************)
(* sendErrorToPython: four prints that make one line.                      *)
(***************************************************************************)
sendErrorToPython(errorMessage, errorCode) ==
    "ERROR: " \o errorMessage \o " | Error Code: " \o ByteToString(errorCode)

SuccessLine(freq) == "SUCCESS: Frequency set to: " \o LongToString(freq)

ReadyLine == "Arduino Nano is ready to receive commands..."

(***************************************************************************)
(* extractFrequency: the returned value and the lines it prints.           *)
(***************************************************************************)
extractFrequency(cmd) ==
    LET spaceIndex == indexOf(cmd, " ")
        frequencyStr == substring(cmd, spaceIndex + 1)
        freq == toInt(frequencyStr)
    IN IF spaceIndex = -1
       THEN [ret |-> 0,
             printed |-> <<sendErrorToPython(
                 "No space found between command and frequency", 1)>>]
       ELSE IF freq = 0 /\ frequencyStr # "0"
       THEN [ret |-> 0,
             printed |-> <<sendErrorToPython(
                 "Frequency is not a valid number", 1)>>]
       ELSE [ret |-> freq, printed |-> <<>>]

(***************************************************************************)
(* The frame sendFrequencyToMAX2870 writes: the command byte, then the     *)
(* high and the low byte of the frequency.                                 *)
(***************************************************************************)
\* the shift without the mask
highByteUnmasked(freq) ==
    freq \div 256

\* (frequency >> 8) & 0xFF
highByte(freq) ==
    (freq \div 256) % 256

\* frequency & 0xFF
lowByte(freq) ==
    freq % 256

\* the two frequency bytes written in the other order
FrameLowByteFirst(freq) ==
    <<COMMAND_BYTE, lowByte(freq), highByte(freq)>>

Frame(freq) ==
    <<COMMAND_BYTE, highByte(freq), lowByte(freq)>>

(***************************************************************************)
(* loop() as a function of the text read and of the code the bus returns:  *)
(* the lines it prints and the frames it writes.                           *)
(***************************************************************************)
loopOutcome(cmd, code) ==
    LET r == extractFrequency(cmd)
    IN IF r.ret > 0
       THEN [lines |-> r.printed \o
                 <<IF code # 0
                   THEN sendErrorToPython("I2C transmission failed", code)
                   ELSE SuccessLine(r.ret)>>,
             frames |-> <<Frame(r.ret)>>]
       ELSE [lines |-> r.printed \o
                 <<sendErrorToPython("Invalid frequency command received", 1)>>,
             frames |-> <<>>]

(***************************************************************************)
(* What the host sends.  A session is one of three kinds:                  *)
(*   "text"     one command, any text over Alphabet up to MaxLen long;     *)
(*   "seq"      MaxCycles commands, each one of SampleTexts;               *)
(*   "decimal"  one command "X <decimal>" for a number of DecimalFreqs.    *)
(***************************************************************************)
Alphabet == {"X", " ", "0", "1", "2", "-", "+", "\n", "\r"}

\* every non-empty sequence of up to MaxLen characters
\* (Serial.available() > 0 means at least one byte was received)
Texts == UNION {[1..n -> Alphabet] : n \in 1..MaxLen}

\* Serial.readString(): the String made of the first n pieces received
RECURSIVE readString(_, _)
readString(chars, n) ==
    IF n = 0 THEN "" ELSE readString(chars, n - 1) \o chars[n]

SampleTexts ==
    {"X 1", "X 258", "X 65537", " 2", "X 12a", "X 0", "X -2", "X 0\n",
     "X a", "X", "noSpaceHere"}

\* 0, all 16 bit frequencies and frequencies at and above 2^16 up to the
\* largest long
DecimalFreqs ==
    (0..(2^16 - 1)) \cup
    {2^16, 2^16 + 1, 2^16 + 255, 2^16 + 256, 2^17 + 3, 2^24 - 1, 2^24,
     123456789, LongMax - 1, LongMax}

\* the commands of a session: the pieces of text the host writes, and the
\* number it formatted (0 when the text was not made from a number)
HostCommands(kind) ==
    CASE kind = "text" -> {[chars |-> t, freq |-> 0] : t \in Texts}
      [] kind = "seq" -> {[chars |-> <<t>>, freq |-> 0] : t \in SampleTexts}
      [] kind = "decimal" ->
            {[chars |-> <<"X ", DecimalText(f)>>, freq |-> f] :
                f \in DecimalFreqs}

VARIABLES
    pc,         \* where loop() stands
    command,    \* String command of loop()
    frequency,  \* long frequency of loop()
    result,     \* byte result of loop()
    serial,     \* the lines printed on the serial port so far
    wire,       \* the bus transactions made so far
    serialMark, \* Len(serial) when the current command was read
    wireMark,   \* Len(wire) when the current command was read
    session,    \* the kind of session of the host
    remaining,  \* number of commands the host has yet to send
    hostFreq    \* the number the host formatted into the current command

vars == <<pc, command, frequency, result, serial, wire, serialMark, wireMark,
          session, remaining, hostFreq>>

\* lines printed and transactions made since the current command was read
CycleLines == SubSeq(serial, serialMark + 1, Len(serial))
CycleFrames == SubSeq(wire, wireMark + 1, Len(wire))

(***************************************************************************)
(* setup(): the serial port and the bus are initialised and the ready line *)
(* is printed.                                                             *)
(***************************************************************************)
setup ==
    /\ pc = "wait"
    /\ command = ""
    /\ frequency = 0
    /\ result = 0
    /\ serial = <<ReadyLine>>
    /\ wire = <<>>
    /\ serialMark = 1
    /\ wireMark = 0
    /\ hostFreq = 0

Init == setup /\ session = "text" /\ remaining = 1

InitSeq == setup /\ session = "seq" /\ remaining = MaxCycles

InitDecimal == setup /\ session = "decimal" /\ remaining = 1

(***************************************************************************)
(* loop(), step by step.                                                   *)
(***************************************************************************)
\* Serial.available() > 0 and Serial.readString(); with nothing available
\* loop() returns at once, which leaves every variable as it is
ReadString ==
    /\ pc = "wait"
    /\ remaining > 0
    /\ \E c \in HostCommands(session) :
          /\ command' = readString(c.chars, Len(c.chars))
          /\ hostFreq' = c.freq
    /\ remaining' = remaining - 1
    /\ serialMark' = Len(serial)
    /\ wireMark' = Len(wire)
    /\ pc' = "extract"
    /\ UNCHANGED <<frequency, result, serial, wire, session>>

\* a frequency that keeps its previous value when decoding fails
ExtractFrequencyStale ==
    /\ pc = "extract"
    /\ LET r == extractFrequency(command) IN
          /\ frequency' = IF r.printed = <<>> THEN r.ret ELSE frequency
          /\ serial' = serial \o r.printed
    /\ pc' = "check"
    /\ UNCHANGED <<command, result, wire, serialMark, wireMark, session,
                   remaining, hostFreq>>

\* long frequency = extractFrequency(command)
ExtractFrequency ==
    /\ pc = "extract"
    /\ LET r == extractFrequency(command) IN
          /\ frequency' = r.ret
          /\ serial' = serial \o r.printed
    /\ pc' = "check"
    /\ UNCHANGED <<command, result, wire, serialMark, wireMark, session,
                   remaining, hostFreq>>

\* a transfer that does not look at the decoded value
SendFrequencyUnguarded ==
    /\ pc = "check"
    /\ \E code \in BusCodes :
          /\ wire' = Append(wire, [address |-> MAX2870_I2C_ADDRESS,
                                   frame |-> Frame(frequency)])
          /\ result' = code
    /\ pc' = "report"
    /\ UNCHANGED <<command, frequency, serial, serialMark, wireMark, session,
                   remaining, hostFreq>>

\* frequency > 0: byte result = sendFrequencyToMAX2870(frequency)
SendFrequency ==
    /\ pc = "check"
    /\ frequency > 0
    /\ \E code \in BusCodes :
          /\ wire' = Append(wire, [address |-> MAX2870_I2C_ADDRESS,
                                   frame |-> Frame(frequency)])
          /\ result' = code
    /\ pc' = "report"
    /\ UNCHANGED <<command, frequency, serial, serialMark, wireMark, session,
                   remaining, hostFreq>>

\* a bus failure reported with the code of the decode errors
ReportResultFixedCode ==
    /\ pc = "report"
    /\ serial' = Append(serial,
          IF result # 0
          THEN sendErrorToPython("I2C transmission failed", 1)
          ELSE SuccessLine(frequency))
    /\ pc' = "wait"
    /\ UNCHANGED <<command, frequency, result, wire, serialMark, wireMark,
                   session, remaining, hostFreq>>

\* result != 0: the error line, else the success line
ReportResult ==
    /\ pc = "report"
    /\ serial' = Append(serial,
          IF result # 0
          THEN sendErrorToPython("I2C transmission failed", result)
          ELSE SuccessLine(frequency))
    /\ pc' = "wait"
    /\ UNCHANGED <<command, frequency, result, wire, serialMark, wireMark,
                   session, remaining, hostFreq>>

\* frequency <= 0: the invalid command line
ReportInvalid ==
    /\ pc = "check"
    /\ ~(frequency > 0)
    /\ serial' = Append(serial,
          sendErrorToPython("Invalid frequency command received", 1))
    /\ pc' = "wait"
    /\ UNCHANGED <<command, frequency, result, wire, serialMark, wireMark,
                   session, remaining, hostFreq>>

Next ==
    \/ ReadString
    \/ ExtractFrequency
    \/ SendFrequency
    \/ ReportResult
    \/ ReportInvalid

Spec == Init /\ [][Next]_vars

SpecSeq == InitSeq /\ [][Next]_vars

SpecDecimal == InitDecimal /\ [][Next]_vars

TypeOK ==
    /\ pc \in {"wait", "extract", "check", "report"}
    /\ frequency \in LongMin..LongMax
    /\ result \in BusCodes
    /\ remaining \in 0..MaxCycles
    /\ session \in {"text", "seq", "decimal"}
    /\ serialMark \in 0..Len(serial)
    /\ wireMark \in 0..Len(wire)
    /\ \A i \in 1..Len(wire) :
          \A k \in 1..3 : wire[i].frame[k] \in 0..255

(***************************************************************************)
(* Vocabulary of the properties.  The report lines are written out in      *)
(* full, and the grammar of a command is stated on the text itself, not    *)
(* through the operators that model the code.                              *)
(***************************************************************************)
NoSpaceLine ==
    "ERROR: No space found between command and frequency | Error Code: 1"
NotNumberLine == "ERROR: Frequency is not a valid number | Error Code: 1"
InvalidLine == "ERROR: Invalid frequency command received | Error Code: 1"
BusFailedPrefix == "ERROR: I2C transmission failed | Error Code: "
SuccessPrefix == "SUCCESS: Frequency set to: "

DecodeErrorLines == {NoSpaceLine, NotNumberLine, InvalidLine}

HasPrefix(l, p) == Len(l) >= Len(p) /\ SubSeq(l, 1, Len(p)) = p
IsErrorLine(l) == HasPrefix(l, "ERROR: ")
IsSuccessLine(l) == HasPrefix(l, "SUCCESS: ")

\* loop() has handled a command and waits for the next one
CycleDone == pc = "wait" /\ command # ""

\* the byte sequences written to the bus for the current command
CycleFrameBytes == [i \in 1..Len(CycleFrames) |-> CycleFrames[i].frame]

DecodeErrorReported == \E i \in 1..Len(CycleLines) : CycleLines[i] \in DecodeErrorLines

WhiteSpace == {" ", "\t", "\n", "\r"}

HasSpace(s) == \E i \in 1..Len(s) : Char(s, i) = " "

\* the text after the first space of a text that has one
FieldOf(s) ==
    LET k == CHOOSE k \in 1..Len(s) :
                 Char(s, k) = " " /\ \A j \in 1..(k - 1) : Char(s, j) # " "
    IN SubSeq(s, k + 1, Len(s))

DigitOf(c) ==
    CHOOSE d \in 0..9 :
        <<"0", "1", "2", "3", "4", "5", "6", "7", "8", "9">>[d + 1] = c

RECURSIVE DigitRun(_, _, _)
DigitRun(f, q, e) ==
    IF e < q THEN 0 ELSE DigitRun(f, q, e - 1) * 10 + DigitOf(Char(f, e))

\* the decimal integer a text starts with, after optional white space and an
\* optional sign: whether there is one, and its value
LeadingInt(f) ==
    LET p == CHOOSE p \in 1..(Len(f) + 1) :
                 /\ \A j \in 1..(p - 1) : Char(f, j) \in WhiteSpace
                 /\ p = Len(f) + 1 \/ Char(f, p) \notin WhiteSpace
        signed == p <= Len(f) /\ Char(f, p) \in {"+", "-"}
        q == IF signed THEN p + 1 ELSE p
        e == CHOOSE e \in (q - 1)..Len(f) :
                 /\ \A j \in q..e : Char(f, j) \in Digits
                 /\ e = Len(f) \/ Char(f, e + 1) \notin Digits
        n == DigitRun(f, q, e)
    IN [found |-> e >= q,
        value |-> IF signed /\ Char(f, p) = "-" THEN 0 - n ELSE n]

(***************************************************************************)
(* C1: the bus is used only for a command whose extractFrequency returned  *)
(* a value greater than 0, and a command for which a decode error was      *)
(* reported starts no bus transaction, whatever commands came before.      *)
(***************************************************************************)
C1_TransportOnlyAfterValidation ==
    /\ CycleFrames # <<>> =>
          /\ pc \in {"report", "wait"}
          /\ frequency > 0
          /\ frequency = extractFrequency(command).ret
          /\ ~DecodeErrorReported
    /\ DecodeErrorReported => CycleFrames = <<>>
    /\ pc \in {"check", "report", "wait"} /\ command # "" /\ frequency <= 0 =>
          CycleFrames = <<>>

\* a frame is written for a command that follows a rejected command
C1_Witness ==
    /\ pc = "report"
    /\ Len(CycleFrames) = 1
    /\ \E i \in 1..serialMark : serial[i] \in DecodeErrorLines

(***************************************************************************)
(* C2: for 1 <= F <= 65535 the command "X <F>" is decoded to F without an  *)
(* error report and the frame is 0x51, the high byte of F, the low byte    *)
(* of F.                                                                   *)
(***************************************************************************)
C2_DecimalRoundTrip ==
    (/\ session = "decimal"
     /\ pc \in {"check", "report", "wait"}
     /\ hostFreq \in 1..65535)
    => /\ frequency = hostFreq
       /\ ~DecodeErrorReported
       /\ pc \in {"report", "wait"} =>
             /\ Len(CycleFrameBytes) = 1
             /\ Len(CycleFrameBytes[1]) = 3
             /\ CycleFrameBytes[1][1] = 81
             /\ CycleFrameBytes[1][2] = (hostFreq \div 256) % 256
             /\ CycleFrameBytes[1][3] = hostFreq % 256
             /\ CycleFrameBytes[1][2] * 256 + CycleFrameBytes[1][3] = hostFreq

C2_Witness ==
    /\ CycleDone
    /\ command = "X 258"
    /\ hostFreq = 258
    /\ CycleFrameBytes = <<(<<81, 1, 2>>)>>

(***************************************************************************)
(* C3: for an accepted command the report is decided by the code c the bus *)
(* returned: one line "ERROR: I2C transmission failed | Error Code: c"     *)
(* when c is not 0, one line "SUCCESS: Frequency set to: F" when it is.    *)
(***************************************************************************)
C3_ReportFollowsBusCode ==
    (CycleDone /\ session = "decimal" /\ frequency > 0) =>
        /\ Len(CycleFrames) = 1
        /\ CycleLines =
              <<IF result # 0
                THEN BusFailedPrefix \o <<"1", "2", "3", "4">>[result]
                ELSE SuccessPrefix \o SubSeq(command, 3, Len(command))>>

C3_Witness ==
    /\ CycleDone
    /\ result = 2
    /\ CycleLines = <<"ERROR: I2C transmission failed | Error Code: 2">>
    /\ Len(CycleFrames) = 1

(***************************************************************************)
(* C4: every command, accepted or rejected, is answered by exactly one     *)
(* line, an ERROR line or a SUCCESS line.                                  *)
(***************************************************************************)
C4_ExactlyOneReportLine ==
    CycleDone =>
        /\ Len(CycleLines) = 1
        /\ IsErrorLine(CycleLines[1]) \/ IsSuccessLine(CycleLines[1])

(***************************************************************************)
(* C5: a command whose numeric field is a number that is 0 or negative is  *)
(* rejected: every line of its report is an ERROR line with code 1, there  *)
(* is no SUCCESS line and no frame is written.                             *)
(***************************************************************************)
C5_ZeroAndNegativeRejected ==
    (/\ CycleDone
     /\ HasSpace(command)
     /\ LeadingInt(FieldOf(command)).found
     /\ LeadingInt(FieldOf(command)).value <= 0)
    => /\ CycleLines # <<>>
       /\ \A i \in 1..Len(CycleLines) : CycleLines[i] \in DecodeErrorLines
       /\ CycleLines[Len(CycleLines)] = InvalidLine
       /\ CycleFrames = <<>>

C5_Witness ==
    /\ CycleDone
    /\ command = "X 0"
    /\ CycleLines = <<InvalidLine>>
    /\ CycleFrames = <<>>

(***************************************************************************)
(* C6: a command without a space is answered by the missing-separator      *)
(* ERROR line with code 1 and by no line of another reason, and no frame   *)
(* is written.                                                             *)
(***************************************************************************)
C6_MissingSeparatorOnly ==
    (CycleDone /\ ~HasSpace(command)) =>
        /\ CycleLines = <<NoSpaceLine>>
        /\ CycleFrames = <<>>

(***************************************************************************)
(* C7: for every accepted frequency F, also above 65535, the two frequency *)
(* bytes of the frame are bits 0-15 of F, no error is reported for the     *)
(* discarded bits, the transfer is made, and on success the SUCCESS line   *)
(* shows F in full.                                                        *)
(***************************************************************************)
C7_FrameCarriesLow16Bits ==
    (CycleDone /\ session = "decimal" /\ hostFreq > 0) =>
        /\ Len(CycleFrameBytes) = 1
        /\ CycleFrameBytes[1][2] = (hostFreq \div 256) % 256
        /\ CycleFrameBytes[1][3] = hostFreq % 256
        /\ CycleFrameBytes[1][2] * 256 + CycleFrameBytes[1][3] = hostFreq % 65536
        /\ ~DecodeErrorReported
        /\ result = 0 =>
              CycleLines =
                  <<SuccessPrefix \o SubSeq(command, 3, Len(command))>>

C7_Witness ==
    /\ CycleDone
    /\ hostFreq = 65536 + 256
    /\ result = 0
    /\ CycleFrameBytes = <<(<<81, 1, 0>>)>>
    /\ CycleLines = <<"SUCCESS: Frequency set to: 65792">>

(***************************************************************************)
(* C8: a command L followed by one more white space character (space, CR   *)
(* or LF) is answered as L is: the same lines and the same frames.         *)
(***************************************************************************)
C8_TrailingWhitespaceIgnored ==
    (/\ CycleDone
     /\ Len(command) >= 2
     /\ Char(command, Len(command)) \in {" ", "\r", "\n"}
     /\ HasSpace(SubSeq(command, 1, Len(command) - 1)))
    => LET o == loopOutcome(SubSeq(command, 1, Len(command) - 1), result)
       IN /\ CycleLines = o.lines
          /\ CycleFrameBytes = o.frames

(***************************************************************************)
(* C9: a command is decoded, then transmitted, then reported; the bus is   *)
(* used at most once for a command; all its lines are printed before the   *)
(* next command is read; and its lines and frame depend on its text and    *)
(* on the bus code only, not on the commands handled before it.            *)
(***************************************************************************)
C9_SequentialAndStateless ==
    /\ Len(CycleFrames) <= 1
    /\ pc = "extract" => CycleLines = <<>> /\ CycleFrames = <<>>
    /\ pc = "check" => CycleFrames = <<>> /\ Len(CycleLines) <= 1
    /\ pc = "report" => Len(CycleFrames) = 1 /\ CycleLines = <<>>
    /\ session = "seq" => Len(wire) <= MaxCycles - remaining
    /\ CycleDone =>
          /\ CycleLines = loopOutcome(command, result).lines
          /\ CycleFrameBytes = loopOutcome(command, result).frames

\* a command succeeds after an earlier command failed on the bus
C9_Witness ==
    /\ CycleDone
    /\ Len(wire) = 2
    /\ wireMark = 1
    /\ result = 0
    /\ HasPrefix(serial[serialMark], BusFailedPrefix)
    /\ IsSuccessLine(CycleLines[1])

====
